---- MODULE Spec2Model ----
(***************************************************************************)
(* Model of the recreation.gov campsite checker.                           *)
(*                                                                         *)
(*   campfinder.py          FindCampsite: one scan over a list of parks    *)
(*   campfinederdesperate.py IneedToCamp: the poll loop and the notifier   *)
(*                                                                         *)
(* A calendar date is a record [year, month, day].  A date string is the   *)
(* tuple of the fields strftime prints followed by the literal tail of the *)
(* format, so that two formats of one date are different strings.          *)
(***************************************************************************)
EXTENDS Integers, Sequences, FiniteSets, TLC

VARIABLES
    \* FindCampsite object
    campgrounds, start_date, end_date, nights, site_type, available,
    \* FindCampsite.go_camp frame
    pc, park_idx, months, month_idx, api_data, park_information,
    name_of_site, out, availabilities,
    \* the outside world: requests received by the remote, pages opened
    requests, opened,
    \* IneedToCamp.go_camp frame
    intc, lpc, avail, n, m, scans, sleeps,
    \* a direct call of FindCampsite.consecutive_nights
    r_pc, r_available, r_nights, r_result,
    \* IneedToCamp.notify frame
    t_pc, t_times, t_n, t_plays

scanVars == <<campgrounds, start_date, end_date, nights, site_type, available,
              pc, park_idx, months, month_idx, api_data, park_information,
              name_of_site, out, availabilities, requests, opened>>
pollVars == <<lpc, avail, n, m, scans, sleeps>>
resolverVars == <<r_pc, r_available, r_nights, r_result>>
notifyVars == <<t_pc, t_times, t_n, t_plays>>
vars == <<scanVars, intc, pollVars, resolverVars, notifyVars>>

----------------------------------------------------------------------------
(* Bounds of the model *)

\* longest "availabilities" object of one campsite in one month response
MaxAvail == 2
\* longest list of parks handed to FindCampsite
MaxParks == 2
\* scans the poll loop is followed through
MaxAttempts == 3
\* longest list handed directly to consecutive_nights
MaxLen == 3
\* largest nights threshold handed directly to consecutive_nights
MaxNights == 3
\* largest `times` handed to notify
MaxTimes == 9
\* plays of the sound the notifier is followed through
MaxPlays == 11

(* Program constants *)
ISO_DATE_FORMAT_REQUEST == "T00:00:00.000Z"
ISO_DATE_FORMAT_RESPONSE == "T00:00:00Z"
SUCCESS_EMOJI == "SUCCESS"
FAILURE_EMOJI == "FAILURE"
STATUS_OK == 200
SHOW_LIMIT == 5
EXCEPT_SLEEP == 5
RETRY_SLEEP == 7

----------------------------------------------------------------------------
(* datetime.date *)

Date(y, mo, d) == [year |-> y, month |-> mo, day |-> d]

IsLeap(y) == (y % 4 = 0) /\ ((y % 100 # 0) \/ (y % 400 = 0))

DaysInMonth(y, mo) ==
    IF mo = 2 THEN (IF IsLeap(y) THEN 29 ELSE 28)
    ELSE IF mo \in {4, 6, 9, 11} THEN 30 ELSE 31

RECURSIVE DaysBeforeMonth(_, _)
DaysBeforeMonth(y, mo) ==
    IF mo = 1 THEN 0 ELSE DaysBeforeMonth(y, mo - 1) + DaysInMonth(y, mo - 1)

DaysBeforeYear(y) ==
    (y - 1) * 365 + ((y - 1) \div 4) - ((y - 1) \div 100) + ((y - 1) \div 400)

\* date.toordinal()
ToOrdinal(date) ==
    DaysBeforeYear(date.year) + DaysBeforeMonth(date.year, date.month) + date.day

PrevDay(date) ==
    IF date.day > 1 THEN Date(date.year, date.month, date.day - 1)
    ELSE IF date.month > 1
         THEN Date(date.year, date.month - 1, DaysInMonth(date.year, date.month - 1))
         ELSE Date(date.year - 1, 12, 31)

\* date - timedelta(days=i), i >= 0
RECURSIVE DateMinusDays(_, _)
DateMinusDays(date, i) ==
    IF i = 0 THEN date ELSE DateMinusDays(PrevDay(date), i - 1)

\* (end - start).days
DaysBetween(start, end) == ToOrdinal(end) - ToOrdinal(start)

\* FindCampsite._set_date: "Y-M-D" split at "-" and converted field by field;
\* the input string is held as the tuple of its three integer fields
SetDate(dstr) == Date(dstr[1], dstr[2], dstr[3])

\* FindCampsite._format_date: strftime with one of the two ISO formats
FormatDate(date, format_string) ==
    <<date.year, date.month, date.day, format_string>>

\* datetime.strptime(dstr, ISO_DATE_FORMAT_RESPONSE).toordinal()
ParseOrdinal(dstr) == ToOrdinal(Date(dstr[1], dstr[2], dstr[3]))

----------------------------------------------------------------------------
(* Sequence helpers *)

Range(s) == {s[i] : i \in 1..Len(s)}

Min(a, b) == IF a <= b THEN a ELSE b

RECURSIVE SeqSum(_)
SeqSum(s) == IF s = <<>> THEN 0 ELSE Head(s) + SeqSum(Tail(s))

----------------------------------------------------------------------------
(* dateutil.rrule(MONTHLY, dtstart=first of the start month, until=end_date) *)

NextMonth(date) ==
    IF date.month = 12 THEN Date(date.year + 1, 1, date.day)
    ELSE Date(date.year, date.month + 1, date.day)

RECURSIVE MonthlyRule(_, _)
MonthlyRule(cur, until) ==
    IF ToOrdinal(cur) > ToOrdinal(until) THEN <<>>
    ELSE <<cur>> \o MonthlyRule(NextMonth(cur), until)

\* a slip: the rule started at the check-in date, not at the first of its month
MonthsOfFromStart(start, end) == MonthlyRule(start, end)

\* lines 116-121 of __get_park_information
MonthsOf(start, end) == MonthlyRule(Date(start.year, start.month, 1), end)

----------------------------------------------------------------------------
(* The remote API: what recreation.gov may answer.  The catalogue of parks *)
(* and campsites and the days it reports on are the environment's.         *)

ParkList == <<"p1", "p2", "p3">>

CatalogSites(park) ==
    CASE park = "p1" -> <<"a1", "a2">>
      [] park = "p2" -> <<"b1">>
      [] OTHER -> <<"c1">>

CampsiteType(site) ==
    IF site = "a2" THEN "TENT ONLY SITE" ELSE "STANDARD NONELECTRIC"

FacilityName(park) == <<"campground", park>>

\* the days the remote has availability data for: they straddle a month and
\* a year boundary
ApiDays == {Date(2020, 12, 31), Date(2021, 1, 1), Date(2021, 1, 2)}

Statuses == {"Available", "Reserved"}

\* the "availabilities" objects of one campsite in the answer to one month
\* query: a JSON object, so its keys are distinct, in whatever order the
\* remote writes them
AvailabilitiesOf(days) ==
    LET entries == {<<FormatDate(d, ISO_DATE_FORMAT_RESPONSE), st>> :
                        d \in days, st \in Statuses}
    IN UNION {{a \in [1..k -> entries] :
                  \A i, j \in 1..k : i # j => a[i][1] # a[j][1]} :
              k \in 0..Min(MaxAvail, Cardinality(days))}

\* the bodies the remote may send for /availability/campground/<park>/month
\* with start_date = param
MonthResponses(park, param) ==
    LET days == {d \in ApiDays : d.year = param[1] /\ d.month = param[2]}
        sites == CatalogSites(park)
    IN {[campsites |->
            [i \in 1..Len(sites) |->
                [campsite_id |-> sites[i],
                 campsite_type |-> CampsiteType(sites[i]),
                 availabilities |-> f[i]]]] :
        f \in [1..Len(sites) -> AvailabilitiesOf(days)]}

\* status codes of an answer: 200, or anything else
StatusCodes == {STATUS_OK, 429}

----------------------------------------------------------------------------
(* FindCampsite.__get_park_information, lines 136-152: collapse *)

\* a slip: the site-type filter left out
AvailableDatesAnyType(campsite_data, st) ==
    LET keep(e) == e[2] = "Available"
        kept == SelectSeq(campsite_data.availabilities, keep)
    IN [i \in 1..Len(kept) |-> kept[i][1]]

\* lines 141-147: the dates of one campsite that pass the two filters
AvailableDates(campsite_data, st) ==
    LET keep(e) == /\ e[2] = "Available"
                   /\ ~(st # "" /\ st # campsite_data.campsite_type)
        kept == SelectSeq(campsite_data.availabilities, keep)
    IN [i \in 1..Len(kept) |-> kept[i][1]]

\* lines 148-150: data.setdefault(campsite_id, []) += available
AddAvailable(data, campsite_id, dates) ==
    IF dates = <<>> THEN data
    ELSE IF \E i \in 1..Len(data) : data[i].site = campsite_id
         THEN [i \in 1..Len(data) |->
                  IF data[i].site = campsite_id
                  THEN [data[i] EXCEPT !.dates = @ \o dates]
                  ELSE data[i]]
         ELSE Append(data, [site |-> campsite_id, dates |-> dates])

RECURSIVE CollapseCampsites(_, _, _)
CollapseCampsites(data, campsites, st) ==
    IF campsites = <<>> THEN data
    ELSE CollapseCampsites(
             AddAvailable(data, Head(campsites).campsite_id,
                          AvailableDates(Head(campsites), st)),
             Tail(campsites), st)

RECURSIVE CollapseMonths(_, _, _)
CollapseMonths(data, api, st) ==
    IF api = <<>> THEN data
    ELSE CollapseMonths(CollapseCampsites(data, Head(api).campsites, st),
                        Tail(api), st)

\* the returned dict, as the sequence of its items in insertion order
Collapse(api, st) == CollapseMonths(<<>>, api, st)

----------------------------------------------------------------------------
(* FindCampsite.consecutive_nights *)

\* the key groupby sees for the i-th element: x - next(c)
GroupKey(ordinal_dates, i) == ordinal_dates[i] - (i - 1)

\* length of the groupby group that the i-th element closes so far
RECURSIVE RunLength(_, _)
RunLength(ordinal_dates, i) ==
    IF i > 1 /\ GroupKey(ordinal_dates, i) = GroupKey(ordinal_dates, i - 1)
    THEN RunLength(ordinal_dates, i - 1) + 1
    ELSE 1

\* len(max(groups, key=len)); max() of no group raises ValueError
LongestConsecutive(ordinal_dates) ==
    LET lens == {RunLength(ordinal_dates, i) : i \in 1..Len(ordinal_dates)}
    IN CHOOSE l \in lens : \A k \in lens : k <= l

ConsecutiveNightsRaises(dates) == dates = <<>>

\* the value returned when max() does not raise
ConsecutiveNights(dates, nts) ==
    LET ordinal_dates == [i \in 1..Len(dates) |-> ParseOrdinal(dates[i])]
    IN LongestConsecutive(ordinal_dates) >= nts

----------------------------------------------------------------------------
(* FindCampsite._get_num_available_sites *)

\* a slip: range(0, num_days), which takes in the check-out date and drops
\* the check-in date
WindowDatesFromEnd(start, end) ==
    {FormatDate(DateMinusDays(end, i), ISO_DATE_FORMAT_RESPONSE) :
        i \in 0..(DaysBetween(start, end) - 1)}

\* lines 158-164: the nights of the stay, in the response format
WindowDates(start, end) ==
    {FormatDate(DateMinusDays(end, i), ISO_DATE_FORMAT_RESPONSE) :
        i \in 1..DaysBetween(start, end)}

\* a slip: the clamp left out
ClampNightsNone(nts, num_days) == nts

\* lines 166-167
ClampNights(nts, num_days) ==
    IF nts \in 1..num_days THEN nts ELSE num_days

\* lines 172-176
DesiredAvailable(dates_of_site, dates) ==
    SelectSeq(dates_of_site, LAMBDA d : d \in dates)

\* line 177
SiteCounts(dates_of_site, dates, nts) ==
    LET desired_available == DesiredAvailable(dates_of_site, dates)
    IN desired_available # <<>> /\ ConsecutiveNights(desired_available, nts)

\* the sites appended to self.available, in the order of the dict
CountedSites(info, dates, nts) ==
    LET counted == SelectSeq(info, LAMBDA e : SiteCounts(e.dates, dates, nts))
    IN [i \in 1..Len(counted) |-> counted[i].site]

----------------------------------------------------------------------------
(* FindCampsite.go_camp, one step per request sent and per park counted *)

\* a slip: the flag set from the last park alone
RaiseFlagLastPark(flag, current) == current > 0

\* line 214: the flag is raised by a park with sites and never lowered
RaiseFlag(flag, current) == IF current > 0 THEN TRUE ELSE flag

\* lines 214-218
SummaryEmoji(current) == IF current > 0 THEN SUCCESS_EMOJI ELSE FAILURE_EMOJI

\* line 203, line 204 up to the first request: the months of the range
BeginPark ==
    /\ UNCHANGED <<intc, pollVars, resolverVars, notifyVars>>
    /\ pc = "park_loop"
    /\ park_idx <= Len(campgrounds)
    /\ months' = MonthsOf(start_date, end_date)
    /\ month_idx' = 1
    /\ api_data' = <<>>
    /\ pc' = "query"
    /\ UNCHANGED <<campgrounds, start_date, end_date, nights, site_type,
                   available, park_idx, park_information, name_of_site, out,
                   availabilities, requests, opened>>

\* lines 125-134 and _send_request: one month query and its answer
SendMonthRequest ==
    /\ UNCHANGED <<intc, pollVars, resolverVars, notifyVars>>
    /\ pc = "query"
    /\ month_idx <= Len(months)
    /\ LET park_id == campgrounds[park_idx]
           param == FormatDate(months[month_idx], ISO_DATE_FORMAT_REQUEST)
       IN /\ requests' = Append(requests, [endpoint |-> "availability",
                                           park |-> park_id,
                                           start_date |-> param])
          /\ \E status_code \in StatusCodes :
                \/ /\ status_code = STATUS_OK
                   /\ \E resp \in MonthResponses(park_id, param) :
                         api_data' = Append(api_data, resp)
                   /\ month_idx' = month_idx + 1
                   /\ pc' = "query"
                \/ /\ status_code # STATUS_OK
                   /\ pc' = "raised"
                   /\ UNCHANGED <<api_data, month_idx>>
    /\ UNCHANGED <<campgrounds, start_date, end_date, nights, site_type,
                   available, park_idx, months, park_information,
                   name_of_site, out, availabilities, opened>>

\* lines 136-152: after the last month query, build the returned dict
CollapseParkData ==
    /\ UNCHANGED <<intc, pollVars, resolverVars, notifyVars>>
    /\ pc = "query"
    /\ month_idx > Len(months)
    /\ park_information' = Collapse(api_data, site_type)
    /\ pc' = "site_name"
    /\ UNCHANGED <<campgrounds, start_date, end_date, nights, site_type,
                   available, park_idx, months, month_idx, api_data,
                   name_of_site, out, availabilities, requests, opened>>

\* a slip: lines 211 and 212 swapped, the sites counted before the metadata
\* query is sent
GetSiteNameAfterCount ==
    /\ UNCHANGED <<intc, pollVars, resolverVars, notifyVars>>
    /\ pc = "site_name"
    /\ requests' = Append(requests, [endpoint |-> "campground",
                                     park |-> campgrounds[park_idx],
                                     start_date |-> <<>>])
    /\ available' = available \o
          CountedSites(park_information,
                       WindowDates(start_date, end_date),
                       ClampNights(nights, DaysBetween(start_date, end_date)))
    /\ \E status_code \in StatusCodes :
          \/ /\ status_code = STATUS_OK
             /\ name_of_site' = FacilityName(campgrounds[park_idx])
             /\ pc' = "count"
          \/ /\ status_code # STATUS_OK
             /\ pc' = "raised"
             /\ UNCHANGED name_of_site
    /\ UNCHANGED <<campgrounds, start_date, end_date, nights, site_type,
                   park_idx, months, month_idx, api_data,
                   park_information, out, availabilities, opened>>

\* line 211, _get_site_name and _send_request: the metadata query
GetSiteName ==
    /\ UNCHANGED <<intc, pollVars, resolverVars, notifyVars>>
    /\ pc = "site_name"
    /\ requests' = Append(requests, [endpoint |-> "campground",
                                     park |-> campgrounds[park_idx],
                                     start_date |-> <<>>])
    /\ \E status_code \in StatusCodes :
          \/ /\ status_code = STATUS_OK
             /\ name_of_site' = FacilityName(campgrounds[park_idx])
             /\ pc' = "count"
          \/ /\ status_code # STATUS_OK
             /\ pc' = "raised"
             /\ UNCHANGED name_of_site
    /\ UNCHANGED <<campgrounds, start_date, end_date, nights, site_type,
                   available, park_idx, months, month_idx, api_data,
                   park_information, out, availabilities, opened>>

\* lines 212-224: _get_num_available_sites, then the park's summary line
CountPark ==
    /\ UNCHANGED <<intc, pollVars, resolverVars, notifyVars>>
    /\ pc = "count"
    /\ LET num_days == DaysBetween(start_date, end_date)
           dates == WindowDates(start_date, end_date)
           nts == ClampNights(nights, num_days)
           counted == CountedSites(park_information, dates, nts)
           current == Len(counted)
           maximum == Len(park_information)
       IN /\ nights' = nts
          /\ available' = available \o counted
          /\ availabilities' = RaiseFlag(availabilities, current)
          /\ out' = Append(out, [emoji |-> SummaryEmoji(current),
                                 name |-> name_of_site,
                                 park_id |-> campgrounds[park_idx],
                                 current |-> current,
                                 maximum |-> maximum])
    /\ park_idx' = park_idx + 1
    /\ pc' = "park_loop"
    /\ UNCHANGED <<campgrounds, start_date, end_date, site_type, months,
                   month_idx, api_data, park_information, name_of_site,
                   requests, opened>>

\* lines 226-237: the loop over the parks is over
ReturnScan ==
    /\ UNCHANGED <<intc, pollVars, resolverVars, notifyVars>>
    /\ pc = "park_loop"
    /\ park_idx > Len(campgrounds)
    /\ pc' = "returned"
    /\ UNCHANGED <<campgrounds, start_date, end_date, nights, site_type,
                   available, park_idx, months, month_idx, api_data,
                   park_information, name_of_site, out, availabilities,
                   requests, opened>>

\* FindCampsite.show_campsite: the pages opened
ShownSites(sites) == SubSeq(sites, 1, Min(Len(sites), SHOW_LIMIT))

\* campfinder.py __main__, lines 276-277
MainShow ==
    /\ UNCHANGED <<intc, pollVars, resolverVars, notifyVars>>
    /\ lpc = "main"
    /\ pc = "returned"
    /\ availabilities
    /\ opened' = ShownSites(available)
    /\ pc' = "shown"
    /\ UNCHANGED <<campgrounds, start_date, end_date, nights, site_type,
                   available, park_idx, months, month_idx, api_data,
                   park_information, name_of_site, out, availabilities,
                   requests>>

----------------------------------------------------------------------------
(* Inputs *)

StartDates == {<<2020, 12, 31>>, <<2021, 1, 1>>, <<2021, 1, 2>>}
EndDates == StartDates \cup {<<2021, 1, 3>>, <<2021, 2, 1>>}
SiteTypes == {"", "STANDARD NONELECTRIC"}
ParkLists ==
    {SubSeq(ParkList, i, j) :
        i \in 1..Min(MaxParks, Len(ParkList)),
        j \in 0..Min(MaxParks, Len(ParkList))}

\* FindCampsite.__init__ followed by lines 201-202 of go_camp; nts is the
\* value of the nights attribute when go_camp is entered
ConstructedWith(parks, sd, ed, st, nts) ==
    /\ campgrounds = parks
    /\ start_date = SetDate(sd)
    /\ end_date = SetDate(ed)
    /\ nights = nts
    /\ site_type = st
    /\ available = <<>>
    /\ pc = "park_loop"
    /\ park_idx = 1
    /\ months = <<>>
    /\ month_idx = 1
    /\ api_data = <<>>
    /\ park_information = <<>>
    /\ name_of_site = <<>>
    /\ out = <<>>
    /\ availabilities = FALSE
    /\ requests = <<>>
    /\ opened = <<>>

\* lines 59-60: nights as __init__ leaves it
Constructed(parks, sd, ed, st) ==
    ConstructedWith(parks, sd, ed, st, DaysBetween(SetDate(sd), SetDate(ed)))

\* no FindCampsite exists yet
NoScanner ==
    /\ campgrounds = <<>>
    /\ start_date = Date(1, 1, 1)
    /\ end_date = Date(1, 1, 1)
    /\ nights = 0
    /\ site_type = ""
    /\ available = <<>>
    /\ pc = "none"
    /\ park_idx = 1
    /\ months = <<>>
    /\ month_idx = 1
    /\ api_data = <<>>
    /\ park_information = <<>>
    /\ name_of_site = <<>>
    /\ out = <<>>
    /\ availabilities = FALSE
    /\ requests = <<>>
    /\ opened = <<>>

NoIntc == [campgrounds |-> <<>>, start_date |-> <<>>, end_date |-> <<>>,
           site_type |-> "", popup |-> FALSE]

PollIdle ==
    /\ intc = NoIntc
    /\ lpc = "main"
    /\ avail = FALSE
    /\ n = 0
    /\ m = 0
    /\ scans = 0
    /\ sleeps = <<>>

ResolverIdle ==
    /\ r_pc = "idle"
    /\ r_available = <<>>
    /\ r_nights = 0
    /\ r_result = "none"

NotifyIdle ==
    /\ t_pc = "idle"
    /\ t_times = 0
    /\ t_n = 0
    /\ t_plays = 0

\* campfinder.py run as a program: one FindCampsite, one scan
Init ==
    /\ \E parks \in ParkLists, sd \in StartDates, ed \in EndDates,
          st \in SiteTypes : Constructed(parks, sd, ed, st)
    /\ PollIdle
    /\ ResolverIdle
    /\ NotifyIdle

Next ==
    \/ BeginPark
    \/ SendMonthRequest
    \/ CollapseParkData
    \/ GetSiteName
    \/ CountPark
    \/ ReturnScan
    \/ MainShow

Spec == Init /\ [][Next]_vars

----------------------------------------------------------------------------
(* FindCampsite with its public nights attribute assigned by the caller    *)
(* between construction and go_camp                                        *)

NightsValues == (0 - 1)..MaxNights
NightsParkLists == {<<"p2">>}
NightsStartDates == {<<2021, 1, 1>>}
NightsEndDates == {<<2020, 12, 31>>, <<2021, 1, 1>>, <<2021, 1, 2>>,
                   <<2021, 1, 3>>}

InitNights ==
    /\ \E parks \in NightsParkLists, sd \in NightsStartDates,
          ed \in NightsEndDates, nts \in NightsValues :
          ConstructedWith(parks, sd, ed, "", nts)
    /\ PollIdle
    /\ ResolverIdle
    /\ NotifyIdle

SpecNights == InitNights /\ [][Next]_vars

----------------------------------------------------------------------------
(* IneedToCamp.go_camp: the poll loop *)

\* lines 68-72: the loop test, a fresh FindCampsite, the call of its go_camp
PollStart ==
    /\ lpc = "while"
    /\ ~avail
    /\ scans < MaxAttempts
    /\ campgrounds' = intc.campgrounds
    /\ start_date' = SetDate(intc.start_date)
    /\ end_date' = SetDate(intc.end_date)
    /\ nights' = DaysBetween(SetDate(intc.start_date), SetDate(intc.end_date))
    /\ site_type' = intc.site_type
    /\ available' = <<>>
    /\ pc' = "park_loop"
    /\ park_idx' = 1
    /\ months' = <<>>
    /\ month_idx' = 1
    /\ api_data' = <<>>
    /\ park_information' = <<>>
    /\ name_of_site' = <<>>
    /\ out' = <<>>
    /\ availabilities' = FALSE
    /\ requests' = <<>>
    /\ scans' = scans + 1
    /\ lpc' = "scanning"
    /\ UNCHANGED <<opened, intc, avail, n, m, sleeps, resolverVars, notifyVars>>

\* line 72 returns, then lines 77-83
PollReturn ==
    /\ lpc = "scanning"
    /\ pc = "returned"
    /\ avail' = availabilities
    /\ IF availabilities
       THEN /\ opened' = IF intc.popup THEN ShownSites(available) ELSE opened
            /\ UNCHANGED <<m, sleeps>>
       ELSE /\ m' = m + 1
            /\ sleeps' = Append(sleeps, RETRY_SLEEP)
            /\ UNCHANGED opened
    /\ lpc' = "while"
    /\ UNCHANGED <<campgrounds, start_date, end_date, nights, site_type,
                   available, pc, park_idx, months, month_idx, api_data,
                   park_information, name_of_site, out, availabilities,
                   requests, intc, n, scans, resolverVars, notifyVars>>

\* a slip: no try/except around the scan, the exception ends go_camp
PollExceptPropagates ==
    /\ lpc = "scanning"
    /\ pc = "raised"
    /\ lpc' = "done"
    /\ UNCHANGED <<scanVars, intc, avail, n, m, scans, sleeps, resolverVars,
                   notifyVars>>

\* line 72 raises: lines 73-76, then, avail being false, lines 80-83
PollExcept ==
    /\ lpc = "scanning"
    /\ pc = "raised"
    /\ n' = n + 1
    /\ m' = m + 1
    /\ sleeps' = sleeps \o <<EXCEPT_SLEEP, RETRY_SLEEP>>
    /\ lpc' = "while"
    /\ UNCHANGED <<scanVars, intc, avail, scans, resolverVars, notifyVars>>

\* line 68: the loop test fails and go_camp returns
PollExit ==
    /\ lpc = "while"
    /\ avail
    /\ lpc' = "done"
    /\ UNCHANGED <<scanVars, intc, avail, n, m, scans, sleeps, resolverVars,
                   notifyVars>>

PollParkLists == {<<"p2">>}
PollStartDates == {<<2021, 1, 1>>}
PollEndDates == {<<2021, 1, 2>>, <<2021, 1, 3>>}

\* IneedToCamp.__init__, then lines 65-67 of go_camp
InitPoll ==
    /\ NoScanner
    /\ \E parks \in PollParkLists, sd \in PollStartDates,
          ed \in PollEndDates, popup \in BOOLEAN :
          intc = [campgrounds |-> parks, start_date |-> sd, end_date |-> ed,
                  site_type |-> "", popup |-> popup]
    /\ lpc = "while"
    /\ avail = FALSE
    /\ n = 0
    /\ m = 0
    /\ scans = 0
    /\ sleeps = <<>>
    /\ ResolverIdle
    /\ NotifyIdle

NextPoll ==
    \/ PollStart
    \/ BeginPark
    \/ SendMonthRequest
    \/ CollapseParkData
    \/ GetSiteName
    \/ CountPark
    \/ ReturnScan
    \/ PollReturn
    \/ PollExcept
    \/ PollExit

SpecPoll == InitPoll /\ [][NextPoll]_vars

----------------------------------------------------------------------------
(* FindCampsite.consecutive_nights called on its own *)

ResolverDates ==
    {FormatDate(d, ISO_DATE_FORMAT_RESPONSE) : d \in ApiDays}

ResolverLists == UNION {[1..k -> ResolverDates] : k \in 0..MaxLen}

CallConsecutiveNights ==
    /\ r_pc = "call"
    /\ r_result' = IF ConsecutiveNightsRaises(r_available) THEN "ValueError"
                   ELSE IF ConsecutiveNights(r_available, r_nights)
                        THEN "True" ELSE "False"
    /\ r_pc' = "done"
    /\ UNCHANGED <<r_available, r_nights, scanVars, intc, pollVars,
                   notifyVars>>

InitResolver ==
    /\ NoScanner
    /\ PollIdle
    /\ NotifyIdle
    /\ r_pc = "call"
    /\ r_available \in ResolverLists
    /\ r_nights \in 1..MaxNights
    /\ r_result = "none"

NextResolver == CallConsecutiveNights

SpecResolver == InitResolver /\ [][NextResolver]_vars

----------------------------------------------------------------------------
(* IneedToCamp.notify *)

\* lines 44-52: the import, the sleep, n = 0
NotifyEnter ==
    /\ t_pc = "start"
    /\ \E importable \in BOOLEAN :
          t_pc' = IF importable THEN "loop" ELSE "returned"
    /\ t_n' = 0
    /\ UNCHANGED <<t_times, t_plays, scanVars, intc, pollVars, resolverVars>>

\* lines 53-54: one pass of the loop body
NotifyPlay ==
    /\ t_pc = "loop"
    /\ t_n < t_times
    /\ t_plays < MaxPlays
    /\ t_plays' = t_plays + 1
    /\ UNCHANGED <<t_pc, t_times, t_n, scanVars, intc, pollVars,
                   resolverVars>>

\* line 53: the loop test fails
NotifyReturn ==
    /\ t_pc = "loop"
    /\ ~(t_n < t_times)
    /\ t_pc' = "returned"
    /\ UNCHANGED <<t_times, t_n, t_plays, scanVars, intc, pollVars,
                   resolverVars>>

InitNotify ==
    /\ NoScanner
    /\ PollIdle
    /\ ResolverIdle
    /\ t_pc = "start"
    /\ t_times \in 0..MaxTimes
    /\ t_n = 0
    /\ t_plays = 0

NextNotify ==
    \/ NotifyEnter
    \/ NotifyPlay
    \/ NotifyReturn

SpecNotify == InitNotify /\ [][NextNotify]_vars

----------------------------------------------------------------------------
(* Properties *)

\* park_information and api_data are those of one park
InfoBuilt ==
    \/ pc \in {"site_name", "count"}
    \/ (pc \in {"park_loop", "returned", "shown"} /\ park_idx > 1)

\* park_information is that of park park_idx - 1, which has been counted
InfoCounted == pc \in {"park_loop", "returned", "shown"} /\ park_idx > 1

DatesOfSite(info, site) ==
    IF \E i \in 1..Len(info) : info[i].site = site
    THEN info[CHOOSE i \in 1..Len(info) : info[i].site = site].dates
    ELSE <<>>

Ascending(dates) ==
    \A i, j \in 1..Len(dates) :
        i < j => ParseOrdinal(dates[i]) < ParseOrdinal(dates[j])

\* the site is marked available on the day with this ordinal
MarkedAvailable(dates, ordinal) ==
    \E i \in 1..Len(dates) :
        /\ dates[i][4] = ISO_DATE_FORMAT_RESPONSE
        /\ ParseOrdinal(dates[i]) = ordinal

\* C1: the poll loop is left only after a scan that returned true; after a
\* scan that returned false or raised the loop is still running, avail is
\* false, the loop cannot exit and the next scan can start
C1_StopsOnlyAfterTrueScan ==
    /\ lpc = "done" => (avail /\ pc = "returned" /\ availabilities)
    /\ (lpc = "while" /\ scans > 0 /\ ~(pc = "returned" /\ availabilities))
          => /\ ~avail
             /\ ~ENABLED PollExit
             /\ (scans < MaxAttempts => ENABLED PollStart)

C1_Witness ==
    /\ lpc = "done"
    /\ n >= 1
    /\ m > n

\* C2: when the loop is done after k unsuccessful attempts it has made k + 1
\* scans and exactly k delays, one per unsuccessful attempt
C2_OneDelayPerFailedAttempt ==
    lpc = "done" => (scans = m + 1 /\ Len(sleeps) = m)

\* the longest run of calendar days, each one day after the previous, in a
\* set of day ordinals; 0 for the empty set
LongestRunOfDays(S) ==
    LET fits(l) == l = 0 \/ \E d \in S : \A j \in 0..(l - 1) : d + j \in S
    IN CHOOSE l \in 0..Cardinality(S) :
          fits(l) /\ \A k \in 0..Cardinality(S) : fits(k) => k <= l

\* C3: for every list of dates, in whatever order and the empty list
\* included, consecutive_nights returns true iff the longest run of
\* consecutive days is at least the required nights
C3_ResolverMatchesLongestRun ==
    r_pc = "done" =>
        r_result =
            IF LongestRunOfDays({ParseOrdinal(r_available[i]) :
                                    i \in 1..Len(r_available)}) >= r_nights
            THEN "True" ELSE "False"

\* C4: notify plays the sound at most `times` times
C4_PlaysAtMostTimes == t_plays <= t_times

\* the month queries the remote received for a park, in order
MonthQueriesOf(park) ==
    LET q == SelectSeq(requests,
                 LAMBDA r : r.endpoint = "availability" /\ r.park = park)
    IN [i \in 1..Len(q) |-> q[i].start_date]

\* the first of each calendar month from the month of start to the month
\* of end, in the request format
FirstOfMonths(start, end) ==
    LET first == start.year * 12 + (start.month - 1)
        last == end.year * 12 + (end.month - 1)
    IN [i \in 1..(last - first + 1) |->
           <<(first + i - 1) \div 12, ((first + i - 1) % 12) + 1, 1,
             ISO_DATE_FORMAT_REQUEST>>]

\* C5: for a range start <= end, once the month queries of a park are done
\* the remote has received exactly one query per calendar month touched by
\* the range, for the first of that month, in ascending order
C5_OneQueryPerMonth ==
    ToOrdinal(start_date) <= ToOrdinal(end_date) =>
        \A i \in 1..Len(campgrounds) :
            (i < park_idx \/ (i = park_idx /\ pc \in {"site_name", "count"}))
                => MonthQueriesOf(campgrounds[i])
                       = FirstOfMonths(start_date, end_date)

C5_Witness ==
    /\ pc = "count"
    /\ park_idx = 2
    /\ start_date.year < end_date.year
    /\ Len(MonthQueriesOf(campgrounds[2])) = 3

\* C6: every date in the merged map was answered with status "Available"
\* for that site and, under a non-empty filter, by a campsite of exactly the
\* filter's type; a campsite of another type is not in the map and not in
\* the qualifying list
C6_OnlyAvailableOfMatchingType ==
    InfoBuilt =>
        /\ \A e \in Range(park_information) : \A d \in Range(e.dates) :
              \E resp \in Range(api_data) : \E c \in Range(resp.campsites) :
                  /\ c.campsite_id = e.site
                  /\ <<d, "Available">> \in Range(c.availabilities)
                  /\ (site_type # "" => c.campsite_type = site_type)
        /\ \A resp \in Range(api_data) : \A c \in Range(resp.campsites) :
              (site_type # "" /\ c.campsite_type # site_type) =>
                  /\ \A e \in Range(park_information) : e.site # c.campsite_id
                  /\ c.campsite_id \notin Range(available)

C6_Witness ==
    /\ InfoCounted
    /\ site_type # ""
    /\ available # <<>>
    /\ \E resp \in Range(api_data) : \E c \in Range(resp.campsites) :
          /\ c.campsite_type # site_type
          /\ \E a \in Range(c.availabilities) :
                a[2] = "Available" /\ a[1] \in WindowDates(start_date, end_date)
    /\ \E resp \in Range(api_data) : \E c \in Range(resp.campsites) :
          \E a \in Range(c.availabilities) : a[2] = "Reserved"

\* C7: when a query of a park fails the scan has raised, and at that point
\* no site of that park is in the qualifying list and no summary line of
\* that park exists
C7_NothingCommittedOnError ==
    pc = "raised" =>
        /\ park_idx <= Len(campgrounds)
        /\ Range(available) \cap Range(CatalogSites(campgrounds[park_idx])) = {}
        /\ Len(out) = park_idx - 1
        /\ \A i \in 1..Len(out) : out[i].park_id # campgrounds[park_idx]
        /\ ~ENABLED Next

C7_Witness ==
    /\ pc = "raised"
    /\ park_idx = 2
    /\ available # <<>>
    /\ Len(api_data) = 1
    /\ Len(months) = 2
    /\ \E c \in Range(api_data[1].campsites) :
          SiteCounts(AvailableDates(c, site_type),
                     WindowDates(start_date, end_date), nights)

\* C8: after a scan that returned, the flag is true iff some park has a
\* qualifying site, every park has its summary line, the line carries the
\* success marker iff the park's own count is positive and the failure
\* marker otherwise, and the qualifying list holds, park by park, as many
\* sites of the park as its count and nothing else
C8_ScanOutcome ==
    pc \in {"returned", "shown"} =>
        /\ Len(out) = Len(campgrounds)
        /\ availabilities = (\E i \in 1..Len(out) : out[i].current > 0)
        /\ \A i \in 1..Len(out) :
              /\ out[i].park_id = campgrounds[i]
              /\ out[i].emoji =
                    (IF out[i].current > 0 THEN SUCCESS_EMOJI
                     ELSE FAILURE_EMOJI)
              /\ Cardinality({k \in 1..Len(available) :
                     available[k] \in Range(CatalogSites(campgrounds[i]))})
                    = out[i].current
        /\ Len(available) = SeqSum([i \in 1..Len(out) |-> out[i].current])
        /\ Len(out) > 0 =>
              CountedSites(park_information,
                           WindowDates(start_date, end_date), nights)
              = SubSeq(available,
                       Len(available) - out[Len(out)].current + 1,
                       Len(available))

C8_Witness ==
    /\ pc = "returned"
    /\ Len(out) = 2
    /\ out[1].current = 0
    /\ out[1].maximum > 0
    /\ out[2].current = 1
    /\ availabilities

\* C9: _get_num_available_sites leaves in nights, and hands to the resolver,
\* the window size when nights is below 1 or above the window size, and
\* nights itself when it lies in [1, window size]
C9_ClampToWindow ==
    [][pc = "count" =>
          LET num_days == DaysBetween(start_date, end_date)
              threshold == IF nights >= 1 /\ nights <= num_days
                           THEN nights ELSE num_days
          IN /\ nights' = threshold
             /\ available' = available \o
                   CountedSites(park_information,
                                WindowDates(start_date, end_date), threshold)]_vars

C9_Witness ==
    /\ pc = "count"
    /\ DaysBetween(start_date, end_date) = 2
    /\ nights > 2
    /\ \E e \in Range(park_information) : Len(e.dates) = 2 /\ Ascending(e.dates)

\* C10: with start < end and nights as the constructor leaves it, a site
\* whose merged dates are ascending without duplicates is counted iff it is
\* marked available on every night from start to the day before end
C10_EveryNightOfTheStay ==
    (InfoCounted /\ ToOrdinal(start_date) < ToOrdinal(end_date)) =>
        \A site \in Range(CatalogSites(campgrounds[park_idx - 1])) :
            LET dates == DatesOfSite(park_information, site)
            IN Ascending(dates) =>
                  ((site \in Range(available)) <=>
                      \A o \in ToOrdinal(start_date)..(ToOrdinal(end_date) - 1) :
                          MarkedAvailable(dates, o))

C10_Witness ==
    /\ InfoCounted
    /\ DaysBetween(start_date, end_date) = 2
    /\ \E e \in Range(park_information) :
          /\ e.site \in Range(available)
          /\ Len(e.dates) = 3
          /\ Ascending(e.dates)
    /\ \E e \in Range(park_information) :
          /\ e.site \notin Range(available)
          /\ Len(e.dates) = 2
          /\ Ascending(e.dates)

====
